---------------------------- MODULE Spec2Model ----------------------------
(***************************************************************************)
(* State-machine model of the recommendation path of the board-game        *)
(* recommender backend: the ModelManager singleton with its lazy artifact  *)
(* load (backend/app/recommender.py), the scoring and hydration done by    *)
(* get_recommendations, and the crud wrapper the web layer calls.          *)
(*                                                                         *)
(* Numbers.  Embedding rows are integer vectors that all have Euclidean    *)
(* norm RowNorm, so row/RowNorm is the L2-normalized row the artifact      *)
(* holds.  The query vector is kept multiplied by the positive factor      *)
(* len(liked_indices) * len(disliked_indices) (or the one that is not 0)   *)
(* and is not divided by its norm: a model score is the code's cosine      *)
(* score times a positive number that is the same for every row, so the    *)
(* sign of a score, the comparison of two scores of one request, and the   *)
(* zero vector are exactly the code's.  Normalize keeps the squared norm   *)
(* the code divides by next to the vector: the code's score of a row is    *)
(* the model score over RowNorm * sqrt(norm2).                             *)
(***************************************************************************)
EXTENDS Integers, Sequences, FiniteSets, TLC

\* An optional value: None, or Some(x).  `x is None` is x = NoneV.
NoneV == << >>
Some(x) == <<x>>
Val(o) == o[1]

\* ------------------------------------------------------------------ bounds
MaxLimit == 2        \* largest `limit` a request carries
MaxGen == 2          \* generation tags (training timestamps) in the directory
MaxListLen == 2      \* longest liked_games list a request carries

\* ------------------------------------------------------- artifact contents
RowNorm == 5

\* Contents a game_embeddings_*.npz file can hold: a matrix (a sequence of
\* rows, row index i of the code is position i+1) or bytes load_npz rejects.
\* A file content is [ok, data]: ok = FALSE for bytes the parser rejects.
Good(d) == [ok |-> TRUE, data |-> d]
Corrupt == [ok |-> FALSE, data |-> << >>]

EmbA == << <<5, 0>>, <<4, 3>>, <<0, 5>> >>
EmbB == << <<3, 4>>, <<-5, 0>> >>
\* four rows; rows 1 and 2 are equally similar to row 0
EmbT == << <<5, 0>>, <<4, 3>>, <<4, -3>>, <<3, 4>> >>
EmbContents == {Good(EmbA), Good(EmbB), Good(EmbT), Corrupt}

\* Contents a reverse_mappings_*.json file can hold: the JSON object as the
\* sequence of its (key string, ItemId) members in file order, or text that
\* json.load rejects.
MapA == << <<"0", 101>>, <<"1", 102>>, <<"2", 103>> >>
MapB == << <<"0", 101>>, <<"1", 102>> >>
MapQ == << <<"0", 101>>, <<"1", 102>>, <<"2", 103>>, <<"3", 104>> >>
MapDup == << <<"0", 101>>, <<"1", 101>>, <<"2", 102>> >>
MapBadKey == << <<"0", 101>>, <<"x", 102>> >>
MapContents ==
    {Good(MapA), Good(MapB), Good(MapQ), Good(MapDup), Good(MapBadKey), Corrupt}

\* ItemIds the artifacts know, and the ids a request can name (999 is in no
\* mapping artifact).
ItemIds == {101, 102, 103, 104}
RequestIds == {101, 102, 999}

\* ------------------------------------------------------------ pure helpers
Range(f) == {f[x] : x \in DOMAIN f}

EmptyDict == << >>

\* int(k) of line 51: the key strings the artifacts use; any other raises.
IsIntString(s) == s \in {"0", "1", "2", "3"}
ParseInt(s) == CASE s = "0" -> 0 [] s = "1" -> 1 [] s = "2" -> 2 [] s = "3" -> 3

\* dict update d[k] = v
Put(d, k, v) == [x \in (DOMAIN d) \cup {k} |-> IF x = k THEN v ELSE d[x]]

\* {int(k): v for k, v in json.load(f).items()}
RECURSIVE ReverseMappingOf(_)
ReverseMappingOf(pairs) ==
    IF pairs = << >> THEN EmptyDict
    ELSE LET n == Len(pairs)
         IN  Put(ReverseMappingOf(SubSeq(pairs, 1, n - 1)),
                 ParseInt(pairs[n][1]), pairs[n][2])

\* {v: k for k, v in self._reverse_game_mapping.items()}: a later member of
\* the file with the same ItemId overwrites the earlier one.
RECURSIVE GameMappingOf(_)
GameMappingOf(pairs) ==
    IF pairs = << >> THEN EmptyDict
    ELSE LET n == Len(pairs)
         IN  Put(GameMappingOf(SubSeq(pairs, 1, n - 1)),
                 pairs[n][2], ParseInt(pairs[n][1]))

\* json.load succeeds and every key passes int(k)
MapParses(c) == c.ok /\ \A i \in 1..Len(c.data) : IsIntString(c.data[i][1])

\* --------------------------------------------------- get_recommendations
\* Sequence helpers
Reverse(s) == [i \in 1..Len(s) |-> s[Len(s) + 1 - i]]

\* s[-k:] of Python for k >= 0: the last k elements, and the WHOLE list for
\* k = 0, since -0 is 0 and s[0:] is s.
LastK(s, k) ==
    IF k = 0 \/ k >= Len(s) THEN s ELSE SubSeq(s, Len(s) - k + 1, Len(s))

Abs(x) == IF x < 0 THEN -x ELSE x

Dot(u, v) == u[1] * v[1] + u[2] * v[2]
VAdd(u, v) == <<u[1] + v[1], u[2] + v[2]>>
VScale(c, u) == <<c * u[1], c * u[2]>>
ZeroVec == <<0, 0>>

\* lines 93-94 without their `if g in game_mapping`, as
\* [game_mapping.get(g, 0) for g in ids]: an unknown id counts as row 0
RECURSIVE ToIndicesUnknownAsRowZero(_, _)
ToIndicesUnknownAsRowZero(game_mapping, ids) ==
    IF ids = << >> THEN << >>
    ELSE <<IF Head(ids) \in DOMAIN game_mapping THEN game_mapping[Head(ids)] ELSE 0>>
         \o ToIndicesUnknownAsRowZero(game_mapping, Tail(ids))

\* [game_mapping[g] for g in ids if g in game_mapping]   (lines 93-94)
RECURSIVE ToIndices(_, _)
ToIndices(game_mapping, ids) ==
    IF ids = << >> THEN << >>
    ELSE (IF Head(ids) \in DOMAIN game_mapping
             THEN <<game_mapping[Head(ids)]>> ELSE << >>)
         \o ToIndices(game_mapping, Tail(ids))

\* game_embeddings[indices] raises IndexError for a row the matrix lacks
RowsExist(emb, indices) ==
    \A i \in 1..Len(indices) : indices[i] + 1 \in 1..Len(emb)

\* sum of the rows at `indices` (an index listed twice counts twice)
RECURSIVE SumRows(_, _)
SumRows(emb, indices) ==
    IF indices = << >> THEN ZeroVec
    ELSE VAdd(emb[Head(indices) + 1], SumRows(emb, Tail(indices)))

\* line 104 as pos_vec + anti_weight * neg_vec
QueryVecAdds(emb, liked_indices, disliked_indices, anti_weight) ==
    LET nl == IF liked_indices = << >> THEN 1 ELSE Len(liked_indices)
        nd == IF disliked_indices = << >> THEN 1 ELSE Len(disliked_indices)
    IN  VAdd(VScale(nd, SumRows(emb, liked_indices)),
             VScale(anti_weight * nl, SumRows(emb, disliked_indices)))

\* pos_vec - anti_weight * neg_vec (lines 101-104), times the positive
\* factor len(liked) * len(disliked) (each taken as 1 when the list is empty)
QueryVec(emb, liked_indices, disliked_indices, anti_weight) ==
    LET nl == IF liked_indices = << >> THEN 1 ELSE Len(liked_indices)
        nd == IF disliked_indices = << >> THEN 1 ELSE Len(disliked_indices)
    IN  VAdd(VScale(nd, SumRows(emb, liked_indices)),
             VScale(-(anti_weight * nl), SumRows(emb, disliked_indices)))

\* The factor QueryVec carries: len(liked) * len(disliked), empty lists as 1
QueryScale(liked_indices, disliked_indices) ==
    (IF liked_indices = << >> THEN 1 ELSE Len(liked_indices))
        * (IF disliked_indices = << >> THEN 1 ELSE Len(disliked_indices))

\* line 109 left out: the query stays pos_vec - anti_weight * neg_vec, which
\* is `query` over RowNorm * scale
NormalizeSkipped(query, scale) ==
    [vec |-> query, norm2 |-> (RowNorm * scale) * (RowNorm * scale)]

\* normalize(query_vec, norm='l2') (line 109): the unit vector is vec over
\* the square root of norm2; sklearn divides a zero vector by 1.  `scale`
\* is the factor `query` carries, which the division cancels.
Normalize(query, scale) ==
    [vec |-> query, norm2 |-> IF Dot(query, query) = 0 THEN 1 ELSE Dot(query, query)]

\* The value line 117 writes over the score of an input row: -1, the least
\* cosine value, which is at or below every real score of the request.
Sentinel(query) == -(RowNorm * (Abs(query[1]) + Abs(query[2]))) - 1

\* scores after lines 112-117, as a function of the row index 0..n-1
ScoresOf(emb, query, excluded) ==
    [i \in 0..(Len(emb) - 1) |->
        IF i \in excluded THEN Sentinel(query) ELSE Dot(emb[i + 1], query)]

\* np.argsort(scores): the row indices in ascending order of score; rows of
\* equal score keep ascending index order (the arrays are short, where
\* numpy's sort is an insertion sort).
RECURSIVE InsertAsc(_, _, _)
InsertAsc(sorted, x, scores) ==
    IF sorted = << >> THEN <<x>>
    ELSE IF scores[x] < scores[Head(sorted)] THEN <<x>> \o sorted
    ELSE <<Head(sorted)>> \o InsertAsc(Tail(sorted), x, scores)

RECURSIVE ArgSortUpTo(_, _)
ArgSortUpTo(scores, n) ==
    IF n = 0 THEN << >>
    ELSE InsertAsc(ArgSortUpTo(scores, n - 1), n - 1, scores)

ArgSort(scores) == ArgSortUpTo(scores, Cardinality(DOMAIN scores))

\* np.argsort(scores)[-limit*2:][::-1]   (line 121)
TopIndices(scores, limit) == Reverse(LastK(ArgSort(scores), 2 * limit))

\* line 124 as `if scores[idx] >= 0`
PositiveOfOrZero(top, scores) ==
    LET keep == {i \in 1..Len(top) : scores[top[i]] >= 0}
        RECURSIVE Pick(_)
        Pick(i) == IF i > Len(top) THEN << >>
                   ELSE (IF i \in keep THEN <<top[i]>> ELSE << >>) \o Pick(i + 1)
    IN  Pick(1)

\* lines 123-128: the (ItemId, score) pairs of the window's positive scores;
\* reverse_game_mapping[idx] raises KeyError for a row the mapping lacks.
PositiveOf(top, scores) ==
    LET keep == {i \in 1..Len(top) : scores[top[i]] > 0}
        RECURSIVE Pick(_)
        Pick(i) == IF i > Len(top) THEN << >>
                   ELSE (IF i \in keep THEN <<top[i]>> ELSE << >>) \o Pick(i + 1)
    IN  Pick(1)

ScoredPairs(rows, scores, reverse_game_mapping) ==
    [i \in 1..Len(rows) |-> <<reverse_game_mapping[rows[i]], scores[rows[i]]>>]

\* line 136 left out: every pair stays
PairsInUnfiltered(pairs, ids) == pairs

\* line 136: keep the pairs whose id is in `ids`
RECURSIVE PairsIn(_, _)
PairsIn(pairs, ids) ==
    IF pairs = << >> THEN << >>
    ELSE (IF Head(pairs)[1] \in ids THEN <<Head(pairs)>> ELSE << >>)
         \o PairsIn(Tail(pairs), ids)

\* lines 149-156 without the test `if game_id in game_map`
RECURSIVE BuildResultUnchecked(_, _, _, _, _)
BuildResultUnchecked(pairs, game_map, limit, ids, score_of) ==
    IF pairs = << >> THEN [ids |-> ids, score_of |-> score_of]
    ELSE LET ids2 == Append(ids, Head(pairs)[1])
             sc2 == Put(score_of, Head(pairs)[1], Head(pairs)[2])
         IN  IF Len(ids2) >= limit THEN [ids |-> ids2, score_of |-> sc2]
             ELSE BuildResultUnchecked(Tail(pairs), game_map, limit, ids2, sc2)

\* lines 149-156: walk the pairs, attach the score to the entity found in
\* game_map and append the entity; stop once `limit` entities are appended
\* (the test comes after the append).  Returns the appended ids in order and
\* the recommendation_score each entity ends with.
RECURSIVE BuildResult(_, _, _, _, _)
BuildResult(pairs, game_map, limit, ids, score_of) ==
    IF pairs = << >> THEN [ids |-> ids, score_of |-> score_of]
    ELSE LET hit == Head(pairs)[1] \in game_map
             ids2 == IF hit THEN Append(ids, Head(pairs)[1]) ELSE ids
             sc2 == IF hit THEN Put(score_of, Head(pairs)[1], Head(pairs)[2])
                    ELSE score_of
         IN  IF Len(ids2) >= limit THEN [ids |-> ids2, score_of |-> sc2]
             ELSE BuildResult(Tail(pairs), game_map, limit, ids2, sc2)

\* line 159 without reverse=True: ascending
RECURSIVE InsertAscendingScore(_, _, _)
InsertAscendingScore(sorted, x, score_of) ==
    IF sorted = << >> THEN <<x>>
    ELSE IF score_of[x] < score_of[Head(sorted)] THEN <<x>> \o sorted
    ELSE <<Head(sorted)>> \o InsertAscendingScore(Tail(sorted), x, score_of)

\* result_games.sort(key=recommendation_score, reverse=True): descending,
\* entities of equal score keep their order (line 159)
RECURSIVE InsertDesc(_, _, _)
InsertDesc(sorted, x, score_of) ==
    IF sorted = << >> THEN <<x>>
    ELSE IF score_of[x] > score_of[Head(sorted)] THEN <<x>> \o sorted
    ELSE <<Head(sorted)>> \o InsertDesc(Tail(sorted), x, score_of)

RECURSIVE SortDesc(_, _)
SortDesc(ids, score_of) ==
    IF ids = << >> THEN << >>
    ELSE InsertDesc(SortDesc(SubSeq(ids, 1, Len(ids) - 1), score_of),
                    ids[Len(ids)], score_of)

\* The catalog store a request sees: the ids of the board_games rows in the
\* order its queries return them, the bgg ids of the pax_games rows, and
\* whether its queries answer or raise.
Store(games, pax, up) == [games |-> games, pax |-> pax, up |-> up]

\* lines 139-141 ending in .first() (as a one-row list) instead of .all()
RECURSIVE QueryFirstRow(_, _)
QueryFirstRow(rows, ids) ==
    IF rows = << >> THEN << >>
    ELSE IF Head(rows) \in ids THEN <<Head(rows)>>
    ELSE QueryFirstRow(Tail(rows), ids)

\* db.query(BoardGame).filter(BoardGame.id.in_(ids)).all()  (lines 139-141):
\* the rows whose id is in `ids`, in the store's order
RECURSIVE Query(_, _)
Query(rows, ids) ==
    IF rows = << >> THEN << >>
    ELSE (IF Head(rows) \in ids THEN <<Head(rows)>> ELSE << >>)
         \o Query(Tail(rows), ids)

\* game_map of lines 144-146: a dict keyed by id, so the ids it holds
GameMap(games_from_db) == Range(games_from_db)

\* lines 96-98 left out
NoKnownInputNotTested(liked_indices, disliked_indices) == FALSE

\* lines 96-98: no id of the request is in the mapping
NoKnownInput(liked_indices, disliked_indices) ==
    liked_indices = << >> /\ disliked_indices = << >>

\* What one run of the try block (lines 85-161) ends with: `raised` when an
\* exception left the block, else the returned entities as (id, score) pairs
\* in order; `queries` counts the store round-trips made; `score_of` is the
\* recommendation_score written onto each entity.
Raised(q) == [raised |-> TRUE, result |-> << >>, queries |-> q, score_of |-> EmptyDict]
Returned(r, q, sc) == [raised |-> FALSE, result |-> r, queries |-> q, score_of |-> sc]

\* lines 87-128 for a manager whose get_model() returned `emb`: either the
\* call ends here (`ended`, with what it ends with), or the (ItemId, score)
\* pairs of recommended_games_with_scores, best first
Rank(emb, game_mapping, reverse_game_mapping, req) ==
    LET liked_indices == ToIndices(game_mapping, req.liked)
        disliked_indices == ToIndices(game_mapping, req.disliked)
        inputs == liked_indices \o disliked_indices
        query == QueryVec(emb, liked_indices, disliked_indices, req.anti_weight)
        unit == Normalize(query, QueryScale(liked_indices, disliked_indices))
        scores == ScoresOf(emb, unit.vec, Range(inputs))
        rows == PositiveOf(TopIndices(scores, req.limit), scores)
        End(out) == [ended |-> TRUE, out |-> out, scored |-> << >>]
    IN  IF req.liked = << >> /\ req.disliked = << >> THEN End(Returned(<< >>, 0, EmptyDict))
        ELSE IF NoKnownInput(liked_indices, disliked_indices)
             THEN End(Returned(<< >>, 0, EmptyDict))
        ELSE IF ~RowsExist(emb, inputs) THEN End(Raised(0))
        ELSE IF \E i \in 1..Len(rows) : rows[i] \notin DOMAIN reverse_game_mapping
             THEN End(Raised(0))
        ELSE [ended |-> FALSE, out |-> Raised(0),
              scored |-> ScoredPairs(rows, scores, reverse_game_mapping)]

\* lines 130-161: the registry restriction, the hydration query and the
\* assembly of the result from the ranked pairs
Hydrate(scored, req, db) ==
    LET pax_queries == IF req.pax_only THEN 1 ELSE 0
        kept == IF req.pax_only THEN PairsIn(scored, db.pax) ELSE scored
        recommended_ids == {kept[i][1] : i \in 1..Len(kept)}
        games_from_db == Query(db.games, recommended_ids)
        game_map == GameMap(games_from_db)
        built == BuildResult(kept, game_map, req.limit, << >>, EmptyDict)
        sorted == SortDesc(built.ids, built.score_of)
    IN  IF ~db.up THEN Raised(1)
        ELSE Returned([i \in 1..Len(sorted) |-> <<sorted[i], built.score_of[sorted[i]]>>],
                      pax_queries + 1, built.score_of)

\* lines 87-161
RecommendBody(emb, game_mapping, reverse_game_mapping, req, db) ==
    LET ranked == Rank(emb, game_mapping, reverse_game_mapping, req)
    IN  IF ranked.ended THEN ranked.out ELSE Hydrate(ranked.scored, req, db)

\* lines 163-165: whatever leaves the try block is logged and becomes []
Caught(run) == IF run.raised THEN << >> ELSE run.result

\* lines 84-165
get_recommendations(emb, game_mapping, reverse_game_mapping, req, db) ==
    Caught(RecommendBody(emb, game_mapping, reverse_game_mapping, req, db))

\* The requests: liked_games and disliked_games lists, limit, anti_weight,
\* pax_only.
RECURSIVE SeqsUpTo(_, _)
SeqsUpTo(S, n) ==
    IF n = 0 THEN {<< >>}
    ELSE LET shorter == SeqsUpTo(S, n - 1)
         IN  shorter \cup {Append(q, x) : q \in {r \in shorter : Len(r) = n - 1}, x \in S}

Request(l, d, n, w, p) ==
    [liked |-> l, disliked |-> d, limit |-> n, anti_weight |-> w, pax_only |-> p]

Requests ==
    {Request(l, d, n, w, p) :
        l \in SeqsUpTo(RequestIds, MaxListLen), d \in SeqsUpTo(RequestIds, 1),
        n \in 0..MaxLimit, w \in 0..1, p \in BOOLEAN}

\* ------------------------------------------------------------------ state
\* The thread of the web server's event loop, which runs every handler of
\* main.py (all `async def`, none awaiting inside the recommendation path),
\* and the threads of callers that use ModelManager concurrently.
MainThread == "t1"
Threads == {"t1", "t2"}

VARIABLES
    embFiles,      \* the game_embeddings_*.npz files, oldest st_mtime first
    mapFiles,      \* the reverse_mappings_*.json files, oldest st_mtime first
                   \* (of a file that a newer one of its kind supersedes only
                   \* the name is kept: no line reads it again)
    cls_instance,  \* ModelManager._instance: NoneV or Some(manager number)
    managers,      \* the ModelManager objects created so far, by number
    th,            \* per thread: the call it is in and where in it
    loads,         \* how many load_model() runs read the artifacts and returned
    games,         \* ids of the board_games rows of the catalog store, in
                   \* the order its queries return them
    pax,           \* bgg ids of the pax_games rows of the catalog store
    board_games,   \* the rows of the games table that get_games reads
    cache,         \* main.py's _cache: the cached value of each key in it
    cache_ttl,     \* main.py's _cache_ttl: the expiry time of each key in it
    now,           \* what time.time() returns
    last_set,      \* history: per key, the data and the expiry time of the
                   \* last set_cached_data call for it
    recommender,   \* the crawler's GameRecommender object: NoneV, or
                   \* Some(its fields) once fit() has run
    reply          \* the last call of get_games, of the TTL cache or of the
                   \* offline recommender, with what it returned

\* The state of the web layer outside the recommendation path.
web == <<board_games, cache, cache_ttl, now, last_set, recommender, reply>>

vars == <<embFiles, mapFiles, cls_instance, managers, th, loads, games, pax, web>>

\* A file is [gen, content]: gen is the timestamp in its name, the training
\* run that wrote it (create_embeddings.py names both files of a run alike).
File(g, c) == [gen |-> g, content |-> c]

\* A fresh ModelManager: the class attributes of lines 17-20 show through.
\* map_gen is history only (the code keeps no trace of the mapping file).
NewManager ==
    [game_embeddings |-> NoneV, model_path |-> NoneV,
     game_mapping |-> EmptyDict, reverse_game_mapping |-> EmptyDict,
     map_gen |-> NoneV]

\* How a call ended at its caller.  `queries`, `caught` and `written` are
\* history of a recommend call: the store round-trips it made, whether its
\* except branch (lines 163-165) ran, and the recommendation_score attribute
\* it left on the entities of the store's session, by entity id (line 153;
\* an entity comes from the store without that attribute), and `overlapped`
\* whether another thread was between its lines 128 and 130 when this call
\* went into line 130.
NoOutcome ==
    [kind |-> "none", exc |-> "", value |-> << >>, queries |-> 0, caught |-> FALSE,
     written |-> EmptyDict, overlapped |-> FALSE]
ReturnedValue(v) ==
    [kind |-> "returned", exc |-> "", value |-> v, queries |-> 0, caught |-> FALSE,
     written |-> EmptyDict, overlapped |-> FALSE]
RaisedExc(e) ==
    [kind |-> "raised", exc |-> e, value |-> << >>, queries |-> 0, caught |-> FALSE,
     written |-> EmptyDict, overlapped |-> FALSE]

Idle ==
    [pc |-> "idle", op |-> "none", stage |-> 0, self |-> 0,
     emb_sel |-> NoneV, map_sel |-> NoneV, emb_local |-> NoneV,
     req |-> NoneV, ranked |-> NoneV, out |-> NoOutcome]

\* The calls a thread makes:
\*   "load": ModelManager.get_instance().load_model()     (main.py:341)
\*   "crud": crud.get_recommendations(...)                (crud.py:336-359)
\*   "rec":  recommender.get_recommendations(...)         (recommender.py:62)
Ops == {"load", "crud", "rec"}

\* stage 1 is the caller's own get_instance().load_model() (main.py:341,
\* crud.py:350); stage 2 is the body of recommender.get_recommendations.
FirstStage(op) == IF op = "rec" THEN 2 ELSE 1

\* No call of the web layer outside the recommendation path made so far:
\* an empty games table, the empty dicts of main.py:108-109.
NoReply == [op |-> "none", args |-> << >>, value |-> << >>, at |-> 0]

WebAtRest ==
    /\ board_games = << >>
    /\ cache = EmptyDict
    /\ cache_ttl = EmptyDict
    /\ now = 0
    /\ last_set = EmptyDict
    /\ recommender = NoneV
    /\ reply = NoReply

\* The recommendation path before the first call: no artifact, no manager.
NotStarted ==
    /\ embFiles = << >>
    /\ mapFiles = << >>
    /\ cls_instance = NoneV
    /\ managers = << >>
    /\ th = [t \in Threads |-> Idle]
    /\ loads = 0
    /\ games = <<101, 102>>
    /\ pax = {101}

Init == WebAtRest /\ NotStarted

Set(t, r) == th' = [th EXCEPT ![t] = r]

\* max(files, key=st_mtime) of lines 41-42
Latest(files) == files[Len(files)]

LastGen(files) == IF files = << >> THEN 0 ELSE Latest(files).gen

\* ------------------------------------------------- the artifact directory
\* The files already there once a newer one of their kind arrives.
Superseded(files) == [i \in 1..Len(files) |-> File(files[i].gen, Corrupt)]

\* The training job (or a deploy) puts a matrix file of generation g there.
SaveEmbeddings(g, c) ==
    /\ g > LastGen(embFiles)
    /\ embFiles' = Append(Superseded(embFiles), File(g, c))
    /\ UNCHANGED <<mapFiles, cls_instance, managers, th, loads, games, pax, web>>

\* ... and a mapping file of generation g.
SaveMappings(g, c) ==
    /\ g > LastGen(mapFiles)
    /\ mapFiles' = Append(Superseded(mapFiles), File(g, c))
    /\ UNCHANGED <<embFiles, cls_instance, managers, th, loads, games, pax, web>>

\* ----------------------------------------------------------- call starts
\* A thread that is idle, or whose caller has the outcome of its last call,
\* enters get_instance() of the next call.
Begin(t, op) ==
    /\ th[t].pc \in {"idle", "done"}
    /\ Set(t, [Idle EXCEPT !.pc = "gi_check", !.op = op, !.stage = FirstStage(op)])
    /\ UNCHANGED <<embFiles, mapFiles, cls_instance, managers, loads, games, pax, web>>

\* ------------------------------------------ ModelManager.get_instance()
\* line 24: if cls._instance is None
GiCheck(t) ==
    /\ th[t].pc = "gi_check"
    /\ Set(t, [th[t] EXCEPT !.pc = IF cls_instance = NoneV THEN "gi_new" ELSE "gi_ret"])
    /\ UNCHANGED <<embFiles, mapFiles, cls_instance, managers, loads, games, pax, web>>

\* line 25: cls._instance = cls()
GiNew(t) ==
    /\ th[t].pc = "gi_new"
    /\ managers' = Append(managers, NewManager)
    /\ cls_instance' = Some(Len(managers) + 1)
    /\ Set(t, [th[t] EXCEPT !.pc = "gi_ret"])
    /\ UNCHANGED <<embFiles, mapFiles, loads, games, pax, web>>

\* line 26: return cls._instance; the caller goes on to load_model()
\* (stage 1) or get_model() (stage 2, line 86)
GiRet(t) ==
    /\ th[t].pc = "gi_ret"
    /\ Set(t, [th[t] EXCEPT !.self = Val(cls_instance),
                            !.pc = IF th[t].stage = 1 THEN "lm_check" ELSE "gm_check"])
    /\ UNCHANGED <<embFiles, mapFiles, cls_instance, managers, loads, games, pax, web>>

\* -------------------------------------------------- ModelManager.load_model()
\* Where a thread goes when load_model() returns: back to the caller of
\* main.py:341 (the call is over), to the second half of
\* crud.get_recommendations (crud.py:352), or into get_model() at line 60.
AfterLoadReturn(r, emb) ==
    IF r.stage = 2 THEN [r EXCEPT !.pc = "gm_ret", !.emb_sel = NoneV, !.map_sel = NoneV]
    ELSE IF r.op = "crud" THEN [Idle EXCEPT !.pc = "gi_check", !.op = r.op, !.stage = 2]
    ELSE [Idle EXCEPT !.pc = "done", !.op = r.op, !.out = ReturnedValue(emb)]

\* Where an exception of load_model() goes: stage 1 has no handler around
\* the call (main.py:341, crud.py:350), so it reaches the caller; in stage 2
\* the except clause of lines 163-165 logs it and returns [].
AfterLoadRaise(r, e) ==
    IF r.stage = 2
    THEN [Idle EXCEPT !.pc = "done", !.op = r.op,
                      !.out = [ReturnedValue(<< >>) EXCEPT !.caught = TRUE]]
    ELSE [Idle EXCEPT !.pc = "done", !.op = r.op, !.out = RaisedExc(e)]

\* load_model() without the test of lines 30-31: every call loads again
LmCheckAlwaysLoads(t) ==
    /\ th[t].pc = "lm_check"
    /\ Set(t, [th[t] EXCEPT !.pc = "lm_glob_emb"])
    /\ UNCHANGED <<embFiles, mapFiles, cls_instance, managers, loads, games, pax, web>>

\* lines 30-31
LmCheck(t) ==
    /\ th[t].pc = "lm_check"
    /\ LET emb == managers[th[t].self].game_embeddings
       IN  Set(t, IF emb # NoneV THEN AfterLoadReturn(th[t], emb)
                  ELSE [th[t] EXCEPT !.pc = "lm_glob_emb"])
    /\ UNCHANGED <<embFiles, mapFiles, cls_instance, managers, loads, games, pax, web>>

\* line 35: the matrix files in the directory now (the newest is kept, the
\* only one line 41 uses)
LmGlobEmb(t) ==
    /\ th[t].pc = "lm_glob_emb"
    /\ Set(t, [th[t] EXCEPT !.pc = "lm_glob_map",
                 !.emb_sel = IF embFiles = << >> THEN NoneV ELSE Some(Latest(embFiles))])
    /\ UNCHANGED <<embFiles, mapFiles, cls_instance, managers, loads, games, pax, web>>

\* lines 36-42: the mapping files now; no matrix file raises
\* FileNotFoundError (line 39); max() of no mapping file raises ValueError
\* (line 42)
LmGlobMap(t) ==
    /\ th[t].pc = "lm_glob_map"
    /\ Set(t, IF th[t].emb_sel = NoneV THEN AfterLoadRaise(th[t], "FileNotFoundError")
              ELSE IF mapFiles = << >> THEN AfterLoadRaise(th[t], "ValueError")
              ELSE [th[t] EXCEPT !.pc = "lm_emb", !.map_sel = Some(Latest(mapFiles))])
    /\ UNCHANGED <<embFiles, mapFiles, cls_instance, managers, loads, games, pax, web>>

\* lines 46-47: sparse.load_npz raises on a file it cannot read, before the
\* assignment; else the matrix and its path are stored on the manager
LmLoadEmb(t) ==
    /\ th[t].pc = "lm_emb"
    /\ LET f == Val(th[t].emb_sel)
       IN  IF ~f.content.ok
           THEN /\ Set(t, AfterLoadRaise(th[t], "BadZipFile"))
                /\ UNCHANGED managers
           ELSE /\ managers' = [managers EXCEPT ![th[t].self] =
                        [@ EXCEPT !.game_embeddings = Some(f.content.data),
                                  !.model_path = Some(f.gen)]]
                /\ Set(t, [th[t] EXCEPT !.pc = "lm_map"])
    /\ UNCHANGED <<embFiles, mapFiles, cls_instance, loads, games, pax, web>>

\* lines 50-54: json.load or int(k) raises before either mapping is
\* assigned; else both mappings are stored and load_model() returns
LmLoadMap(t) ==
    /\ th[t].pc = "lm_map"
    /\ LET f == Val(th[t].map_sel)
           m == th[t].self
       IN  IF ~f.content.ok
           THEN /\ Set(t, AfterLoadRaise(th[t], "JSONDecodeError"))
                /\ UNCHANGED <<managers, loads>>
           ELSE IF ~MapParses(f.content)
           THEN /\ Set(t, AfterLoadRaise(th[t], "ValueError"))
                /\ UNCHANGED <<managers, loads>>
           ELSE /\ managers' = [managers EXCEPT ![m] =
                        [@ EXCEPT !.reverse_game_mapping = ReverseMappingOf(f.content.data),
                                  !.game_mapping = GameMappingOf(f.content.data),
                                  !.map_gen = Some(f.gen)]]
                /\ loads' = loads + 1
                /\ Set(t, AfterLoadReturn(th[t], managers[m].game_embeddings))
    /\ UNCHANGED <<embFiles, mapFiles, cls_instance, games, pax, web>>

\* --------------------------------------------------- ModelManager.get_model()
\* lines 58-59
GmCheck(t) ==
    /\ th[t].pc = "gm_check"
    /\ Set(t, [th[t] EXCEPT !.pc =
                 IF managers[th[t].self].game_embeddings = NoneV
                 THEN "lm_check" ELSE "gm_ret"])
    /\ UNCHANGED <<embFiles, mapFiles, cls_instance, managers, loads, games, pax, web>>

\* line 60, into game_embeddings of line 86
GmRet(t) ==
    /\ th[t].pc = "gm_ret"
    /\ Set(t, [th[t] EXCEPT !.pc = "body",
                            !.emb_local = managers[th[t].self].game_embeddings])
    /\ UNCHANGED <<embFiles, mapFiles, cls_instance, managers, loads, games, pax, web>>

\* ------------------------------------ get_recommendations, lines 87-165
\* The request is drawn here (nothing before this line reads it); `up` is
\* whether the catalog store answers this request's queries.
Body(t, req, up) ==
    /\ th[t].pc = "body"
    /\ LET m == managers[th[t].self]
           run == RecommendBody(Val(th[t].emb_local), m.game_mapping,
                      m.reverse_game_mapping, req, Store(games, pax, up))
       IN  Set(t, [Idle EXCEPT !.pc = "done", !.op = th[t].op, !.req = Some(req),
                     !.out = [ReturnedValue(Caught(run)) EXCEPT
                                 !.queries = run.queries, !.caught = run.raised,
                                 !.written = run.score_of]])
    /\ UNCHANGED <<embFiles, mapFiles, cls_instance, managers, loads, games, pax, web>>

\* The same lines as two steps of a thread, for callers that run on
\* concurrent threads: lines 87-128, which read the manager's mappings and
\* leave the request's ranking in locals of the call ...
RankStepGlobal(t, req) ==
    /\ th[t].pc = "body"
    /\ LET m == managers[th[t].self]
           ranked == Rank(Val(th[t].emb_local), m.game_mapping,
                         m.reverse_game_mapping, req)
       IN  th' = [u \in Threads |->
                    IF u = t
                    THEN [th[t] EXCEPT !.pc = "ranked", !.emb_local = NoneV,
                                       !.req = Some(req), !.ranked = Some(ranked)]
                    ELSE [th[u] EXCEPT !.ranked =
                             IF th[u].pc = "ranked" THEN Some(ranked) ELSE @]]
    /\ UNCHANGED <<embFiles, mapFiles, cls_instance, managers, loads, games, pax, web>>

RankStep(t, req) ==
    /\ th[t].pc = "body"
    /\ LET m == managers[th[t].self]
           ranked == Rank(Val(th[t].emb_local), m.game_mapping,
                         m.reverse_game_mapping, req)
       IN  Set(t, [th[t] EXCEPT !.pc = "ranked", !.emb_local = NoneV,
                                !.req = Some(req), !.ranked = Some(ranked)])
    /\ UNCHANGED <<embFiles, mapFiles, cls_instance, managers, loads, games, pax, web>>

\* ... and lines 130-165, which query the store and build the result.
HydrateStep(t, up) ==
    /\ th[t].pc = "ranked"
    /\ LET ranked == Val(th[t].ranked)
           run == IF ranked.ended THEN ranked.out
                  ELSE Hydrate(ranked.scored, Val(th[t].req), Store(games, pax, up))
       IN  Set(t, [Idle EXCEPT !.pc = "done", !.op = th[t].op, !.req = th[t].req,
                     !.out = [ReturnedValue(Caught(run)) EXCEPT
                                 !.queries = run.queries, !.caught = run.raised,
                                 !.written = run.score_of,
                                 !.overlapped =
                                     \E u \in Threads \ {t} : th[u].pc = "ranked"]])
    /\ UNCHANGED <<embFiles, mapFiles, cls_instance, managers, loads, games, pax, web>>

\* The requests the lifecycle specifications send.
FewRequests ==
    {Request(l, << >>, MaxLimit, 1, p) : l \in {<< >>, <<101>>, <<102>>}, p \in BOOLEAN}

OneRequest == {Request(<<101>>, << >>, MaxLimit, 1, FALSE)}

\* ------------------------------------------------------- specifications
Directory ==
    \/ \E g \in 1..MaxGen, c \in EmbContents : SaveEmbeddings(g, c)
    \/ \E g \in 1..MaxGen, c \in MapContents : SaveMappings(g, c)

ManagerSteps(t) ==
    \/ GiCheck(t) \/ GiNew(t) \/ GiRet(t)
    \/ LmCheck(t) \/ LmGlobEmb(t) \/ LmGlobMap(t) \/ LmLoadEmb(t) \/ LmLoadMap(t)
    \/ GmCheck(t) \/ GmRet(t)

\* The server: every call runs to its end on the event loop's thread before
\* the next one starts.
Next ==
    \/ Directory
    \/ \E op \in Ops : Begin(MainThread, op)
    \/ ManagerSteps(MainThread)
    \/ \E req \in FewRequests, up \in BOOLEAN : Body(MainThread, req, up)

Spec == Init /\ [][Next]_vars

\* Callers of ModelManager on concurrent threads, over a directory that
\* holds at most one file of each kind and does not change meanwhile.
InitThreads ==
    /\ WebAtRest
    /\ embFiles \in {<< >>} \cup {<<File(1, c)>> : c \in EmbContents}
    /\ mapFiles \in {<< >>} \cup {<<File(1, c)>> : c \in MapContents}
    /\ cls_instance = NoneV
    /\ managers = << >>
    /\ th = [t \in Threads |-> Idle]
    /\ loads = 0
    /\ games = <<101, 102>>
    /\ pax = {101}

NextThreads ==
    \/ \E t \in Threads, op \in {"load", "rec"} : Begin(t, op)
    \/ \E t \in Threads : ManagerSteps(t)
    \/ \E t \in Threads, req \in OneRequest : Body(t, req, TRUE)

SpecThreads == InitThreads /\ [][NextThreads]_vars

\* Requests against a model that the startup load (main.py:341) has cached:
\* any pair of artifacts load_model() accepts, any of a few catalogs, a
\* catalog store that answers (Spec has the requests whose store raises).
\* The calls are those of recommender.get_recommendations; what
\* crud.get_recommendations puts before it, load_model() on a loaded
\* manager, returns at line 31 (Spec has those calls).
LoadedManager(e, m) ==
    [game_embeddings |-> Some(e.data), model_path |-> Some(1),
     game_mapping |-> GameMappingOf(m.data),
     reverse_game_mapping |-> ReverseMappingOf(m.data),
     map_gen |-> Some(1)]

InitLoaded ==
    \E e \in {c \in EmbContents : c.ok}, m \in {c \in MapContents : MapParses(c)} :
        /\ embFiles = <<File(1, e)>>
        /\ mapFiles = <<File(1, m)>>
        /\ cls_instance = Some(1)
        /\ managers = <<LoadedManager(e, m)>>
        /\ th = [t \in Threads |-> Idle]
        /\ loads = 1
        /\ games \in {<<101, 102, 103, 104>>, <<104, 103, 101>>}
        /\ pax \in {ItemIds, {102, 104}, {}}
        /\ WebAtRest

NextRequests ==
    \/ Begin(MainThread, "rec")
    \/ GiCheck(MainThread) \/ GiRet(MainThread)
    \/ GmCheck(MainThread) \/ GmRet(MainThread)
    \/ (th[MainThread].pc = "body" /\ \E req \in Requests : Body(MainThread, req, TRUE))

SpecRequests == InitLoaded /\ [][NextRequests]_vars

\* Recommend calls on concurrent threads against a loaded model.
NextConcurrent ==
    \/ \E t \in Threads : Begin(t, "rec")
    \/ \E t \in Threads : GiCheck(t) \/ GiRet(t) \/ GmCheck(t) \/ GmRet(t)
    \/ \E t \in Threads, req \in FewRequests : RankStep(t, req)
    \/ \E t \in Threads : HydrateStep(t, TRUE)

SpecConcurrent == InitLoaded /\ [][NextConcurrent]_vars

\* ---------------------------------------------------------- crud.get_games
\* The largest players and skip arguments of the calls explored.
MaxPlayers == 3
MaxSkip == 1

\* A row of the games table (models.py:5-54) with the rows of
\* suggested_players that point at it, as their player_count values.
\* min_players and max_players are nullable: NoneV is NULL.
BoardGame(i, r, lo, hi, sp) ==
    [id |-> i, rank |-> r, min_players |-> lo, max_players |-> hi,
     suggested |-> sp]

PlayerColumn == {NoneV, Some(1), Some(2), Some(4)}

\* Two games, stored in the reverse of their rank order.
Catalogs ==
    {<<BoardGame(101, 2, lo1, hi1, <<1, 2>>), BoardGame(102, 1, lo2, hi2, <<2>>)>> :
        lo1 \in PlayerColumn, hi1 \in PlayerColumn,
        lo2 \in PlayerColumn, hi2 \in PlayerColumn}

\* `if players:` on an Optional[int], `if recommendations:` on an
\* Optional[str]
TruthyInt(o) == o # NoneV /\ Val(o) # 0
TruthyStr(o) == o # NoneV /\ Val(o) # ""

\* and_(min_players <= players, max_players >= players) of lines 148-153, as
\* SQL evaluates it: a comparison with NULL is not true.
InPlayerRange(row, n) ==
    /\ row.min_players # NoneV /\ Val(row.min_players) <= n
    /\ row.max_players # NoneV /\ Val(row.max_players) >= n

\* query.join(BoardGame.suggested_players) of line 132, filtered on
\* player_count when `players` is truthy (lines 133-134): one row per
\* suggested_players row.  The recommendation_level filters of lines
\* 135-142 name an attribute SuggestedPlayer does not have
\* (models.py:108-120): the AttributeError ends in the except of line 143
\* with the join and the player_count filter already in the query.
RECURSIVE JoinSuggested(_, _)
JoinSuggested(rows, players) ==
    IF rows = << >> THEN << >>
    ELSE LET row == Head(rows)
             hits == SelectSeq(row.suggested,
                               LAMBDA c : ~TruthyInt(players) \/ c = Val(players))
         IN [k \in 1..Len(hits) |-> row] \o JoinSuggested(Tail(rows), players)

\* order_by(rank.asc().nullslast()) of lines 175-180
RECURSIVE OrderByRank(_)
OrderByRank(rows) ==
    IF rows = << >> THEN << >>
    ELSE LET m == CHOOSE i \in 1..Len(rows) :
                      \A j \in 1..Len(rows) :
                          rows[i].rank < rows[j].rank \/ (rows[i].rank = rows[j].rank /\ i <= j)
         IN <<rows[m]>> \o OrderByRank([k \in 1..(Len(rows) - 1) |->
                                          IF k < m THEN rows[k] ELSE rows[k + 1]])

\* query.offset(skip).limit(limit).all() of line 184
Page(rows, skip, limit) ==
    [k \in 1..(IF Len(rows) - skip < limit
               THEN (IF Len(rows) > skip THEN Len(rows) - skip ELSE 0)
               ELSE limit) |-> rows[skip + k]]

\* crud.get_games with the filters other than players and recommendations
\* left at their defaults (lines 13-27) and sort_by = "rank".
get_games(rows, skip, limit, players, recommendations) ==
    LET query == IF TruthyStr(recommendations) THEN JoinSuggested(rows, players)
                 ELSE IF TruthyInt(players)
                      THEN SelectSeq(rows, LAMBDA row : InPlayerRange(row, Val(players)))
                      ELSE rows
    IN [games |-> Page(OrderByRank(query), skip, limit), total |-> Len(query)]

PlayersArgs == {NoneV} \cup {Some(n) : n \in 0..MaxPlayers}
RecommendationsArgs == {NoneV, Some("best")}

\* GET /games/ (main.py:149-187)
GetGames(skip, limit, players, recommendations) ==
    /\ reply' = [op |-> "get_games",
                 args |-> [skip |-> skip, limit |-> limit, players |-> players,
                           recommendations |-> recommendations],
                 value |-> get_games(board_games, skip, limit, players, recommendations),
                 at |-> now]
    /\ UNCHANGED <<embFiles, mapFiles, cls_instance, managers, th, loads, games, pax,
                   board_games, cache, cache_ttl, now, last_set, recommender>>

InitGames ==
    /\ NotStarted
    /\ board_games \in Catalogs
    /\ cache = EmptyDict
    /\ cache_ttl = EmptyDict
    /\ now = 0
    /\ last_set = EmptyDict
    /\ recommender = NoneV
    /\ reply = NoReply

NextGames ==
    \E skip \in 0..MaxSkip, limit \in 0..MaxLimit,
       players \in PlayersArgs, recommendations \in RecommendationsArgs :
        GetGames(skip, limit, players, recommendations)

SpecGames == InitGames /\ [][NextGames]_vars

\* ------------------------------------- the crawler's GameRecommender
\* Item embeddings fit() can leave (line 150): rows of ratings, none
\* negative, each of length RowNorm.
EmbR == <<<<5, 0>>, <<4, 3>>, <<3, 4>>, <<0, 5>>>>

\* The mappings of lines 69-72 for a dataframe whose index is `index`:
\* game_mapping[game_id] = i and reverse_game_mapping[i] = game_id
Enumerated(index) ==
    [game_mapping |-> [g \in Range(index) |-> (CHOOSE i \in 1..Len(index) :
                          index[i] = g /\ \A j \in (i + 1)..Len(index) : index[j] # g) - 1],
     reverse_game_mapping |-> [i \in 0..(Len(index) - 1) |-> index[i + 1]]]

\* A GameRecommender after fit() (lines 21-38, 141-150); valid_game_ids is
\* None or the set create_embeddings.py:246 assigns.
GameRecommender(index, emb, exclude_expansions, valid_game_ids) ==
    [game_mapping |-> Enumerated(index).game_mapping,
     reverse_game_mapping |-> Enumerated(index).reverse_game_mapping,
     item_embeddings |-> emb,
     exclude_expansions |-> exclude_expansions,
     valid_game_ids |-> valid_game_ids]

Fitted ==
    {GameRecommender(f[1], f[2], x, v) :
        f \in {<<<<101, 102, 103>>, EmbA>>, <<<<103, 101, 102>>, EmbA>>,
               <<<<101, 102, 103, 104>>, EmbR>>},
        x \in BOOLEAN,
        v \in {NoneV, Some({}), Some({101, 103})}}

\* lines 193-197: the rows of the ids outside valid_game_ids, when
\* exclude_expansions is set and valid_game_ids is a non-empty set
Expansions(self) ==
    IF self.exclude_expansions /\ self.valid_game_ids # NoneV
                               /\ Val(self.valid_game_ids) # {}
    THEN {idx \in DOMAIN self.reverse_game_mapping :
             self.reverse_game_mapping[idx] \notin Val(self.valid_game_ids)}
    ELSE {}

\* np.argsort(scores)[-n_recommendations:][::-1]   (line 200)
TopN(scores, n_recommendations) == Reverse(LastK(ArgSort(scores), n_recommendations))

\* GameRecommender.recommend_similar_games (lines 152-205).  Lines 182-187
\* normalize the mean of rows of a sparse matrix, a numpy.matrix, and call
\* .todense() on the product of the sparse item_embeddings with that dense
\* vector; whether that product has a todense(), and whether normalize
\* takes a numpy.matrix, depends on the scipy, numpy and scikit-learn
\* installed: `dense_ok` says the lines went through, else they raised.
recommend_similar_games(self, game_ids, disliked_games, n_recommendations, anti_weight, dense_ok) ==
    LET liked_indices == ToIndices(self.game_mapping, game_ids)
        disliked_indices == ToIndices(self.game_mapping, disliked_games)
        query == QueryVec(self.item_embeddings, liked_indices, disliked_indices,
                          anti_weight)
        unit == Normalize(query, QueryScale(liked_indices, disliked_indices))
        scores == ScoresOf(self.item_embeddings, unit.vec,
                           Range(liked_indices \o disliked_indices) \cup Expansions(self))
        top_indices == TopN(scores, n_recommendations)
    IN  IF liked_indices = << >> THEN [kind |-> "returned", pairs |-> << >>]
        ELSE IF ~dense_ok THEN [kind |-> "raised", pairs |-> << >>]
        ELSE [kind |-> "returned",
              pairs |-> ScoredPairs(PositiveOf(top_indices, scores), scores,
                                    self.reverse_game_mapping)]

\* A call of the offline recommender.
RecommendSimilarGames(game_ids, disliked_games, n_recommendations, anti_weight, dense_ok) ==
    /\ recommender # NoneV
    /\ reply' = [op |-> "recommend_similar_games",
                 args |-> [game_ids |-> game_ids, disliked_games |-> disliked_games,
                           n_recommendations |-> n_recommendations,
                           anti_weight |-> anti_weight],
                 value |-> recommend_similar_games(Val(recommender), game_ids,
                               disliked_games, n_recommendations, anti_weight,
                               dense_ok),
                 at |-> now]
    /\ UNCHANGED <<embFiles, mapFiles, cls_instance, managers, th, loads, games, pax,
                   board_games, cache, cache_ttl, now, last_set, recommender>>

InitOffline ==
    /\ NotStarted
    /\ board_games = << >>
    /\ cache = EmptyDict
    /\ cache_ttl = EmptyDict
    /\ now = 0
    /\ last_set = EmptyDict
    /\ recommender \in {Some(r) : r \in Fitted}
    /\ reply = NoReply

NextOffline ==
    \E game_ids \in SeqsUpTo(RequestIds, MaxListLen),
       disliked_games \in SeqsUpTo({102}, 1),
       n_recommendations \in 0..MaxLimit, anti_weight \in 0..1, dense_ok \in BOOLEAN :
        RecommendSimilarGames(game_ids, disliked_games, n_recommendations, anti_weight,
                              dense_ok)

SpecOffline == InitOffline /\ [][NextOffline]_vars

\* ------------------------------------------- the TTL cache of main.py
\* The latest time explored and the longest ttl_seconds of a set call.
MaxTime == 3
MaxTtl == 2

\* The keys the handlers use (main.py:253, 277) and what they cache.
CacheKeys == {"filter_options", "mechanics_0_100"}
CacheData == {"options", "mechanics"}

\* del d[k]
Del(d, k) == [x \in (DOMAIN d) \ {k} |-> d[x]]

\* get_cached_data without the test of line 114: what is there is returned
GetCachedDataUntimed(key) ==
    /\ reply' = [op |-> "get_cached_data", args |-> [key |-> key],
                 value |-> IF key \in DOMAIN cache /\ key \in DOMAIN cache_ttl
                           THEN Some(cache[key]) ELSE NoneV,
                 at |-> now]
    /\ UNCHANGED <<embFiles, mapFiles, cls_instance, managers, th, loads, games, pax,
                   board_games, cache, cache_ttl, now, last_set, recommender>>

\* get_cached_data(key) (lines 111-120); its ttl_seconds argument is not
\* read.  The handlers that call it are coroutines of the event loop with
\* no await inside the call, so the call is one step; time.time() is read
\* once, at line 114.
GetCachedData(key) ==
    /\ IF key \in DOMAIN cache /\ key \in DOMAIN cache_ttl
       THEN IF now < cache_ttl[key]
            THEN /\ reply' = [op |-> "get_cached_data", args |-> [key |-> key],
                              value |-> Some(cache[key]), at |-> now]
                 /\ UNCHANGED <<cache, cache_ttl>>
            ELSE /\ cache' = Del(cache, key)
                 /\ cache_ttl' = Del(cache_ttl, key)
                 /\ reply' = [op |-> "get_cached_data", args |-> [key |-> key],
                              value |-> NoneV, at |-> now]
       ELSE /\ reply' = [op |-> "get_cached_data", args |-> [key |-> key],
                         value |-> NoneV, at |-> now]
            /\ UNCHANGED <<cache, cache_ttl>>
    /\ UNCHANGED <<embFiles, mapFiles, cls_instance, managers, th, loads, games, pax,
                   board_games, now, last_set, recommender>>

\* set_cached_data(key, data, ttl_seconds) (lines 122-125)
SetCachedData(key, data, ttl_seconds) ==
    /\ cache' = Put(cache, key, data)
    /\ cache_ttl' = Put(cache_ttl, key, now + ttl_seconds)
    /\ last_set' = Put(last_set, key, [data |-> data, expiry |-> now + ttl_seconds])
    /\ reply' = [op |-> "set_cached_data",
                 args |-> [key |-> key, data |-> data, ttl_seconds |-> ttl_seconds],
                 value |-> NoneV, at |-> now]
    /\ UNCHANGED <<embFiles, mapFiles, cls_instance, managers, th, loads, games, pax,
                   board_games, now, recommender>>

\* The clock moves on between calls.
Tick ==
    /\ now < MaxTime
    /\ now' = now + 1
    /\ UNCHANGED <<embFiles, mapFiles, cls_instance, managers, th, loads, games, pax,
                   board_games, cache, cache_ttl, last_set, recommender, reply>>

NextCache ==
    \/ \E key \in CacheKeys : GetCachedData(key)
    \/ \E key \in CacheKeys, data \in CacheData, ttl_seconds \in 1..MaxTtl :
           SetCachedData(key, data, ttl_seconds)
    \/ Tick

SpecCache == Init /\ [][NextCache]_vars

\* ----------------------------------------------------------------- claims
\* What a finished recommend call of thread t returned, as ids
Finished(t) == th[t].pc = "done" /\ th[t].req # NoneV
ReturnedIds(t) == {th[t].out.value[i][1] : i \in 1..Len(th[t].out.value)}
RequestOf(t) == Val(th[t].req)

\* C1: no id passed in liked_games or disliked_games is in the list a
\* recommend call returns, whatever the loaded model and the request.
C1_InputsNeverReturned ==
    \A t \in Threads :
        Finished(t) =>
            ReturnedIds(t) \cap (Range(RequestOf(t).liked) \cup Range(RequestOf(t).disliked)) = {}

\* C2: a call of crud.get_recommendations never ends with an exception at
\* its caller.
C2_CrudNeverRaises ==
    \A t \in Threads :
        (th[t].pc = "done" /\ th[t].op = "crud") => th[t].out.kind # "raised"

\* C3: under concurrent first callers the artifacts are loaded at most once
\* and every caller holds the one manager that ModelManager._instance names.
C3_LoadOnceOneManager ==
    /\ loads <= 1
    /\ \A t \in Threads : th[t].self # 0 => th[t].self = Val(cls_instance)

\* A manager with no load_model() run between its two assignments
InLoad(i) == \E t \in Threads : th[t].self = i /\ th[t].pc = "lm_map"
HasMatrix(i) == managers[i].game_embeddings # NoneV
HasMapping(i) == managers[i].map_gen # NoneV

\* C4: outside a running load_model(), a manager has the matrix cached if
\* and only if it has the mapping cached.
C4_MatrixIffMapping ==
    \A i \in 1..Len(managers) : ~InLoad(i) => (HasMatrix(i) <=> HasMapping(i))

\* A step in which some thread globs the directory or opens an artifact
ReadingPcs == {"lm_glob_emb", "lm_glob_map", "lm_emb", "lm_map"}
EntersRead == \E t \in Threads : th'[t].pc \in ReadingPcs /\ th'[t].pc # th[t].pc

\* C5: once a load has succeeded, no later step changes the cached matrix or
\* mappings, creates another manager, or reads the artifact directory.
C5_LoadedModelIsFrozen ==
    [][loads >= 1 =>
        /\ managers' = managers
        /\ cls_instance' = cls_instance
        /\ loads' = loads
        /\ ~EntersRead]_vars

\* a recommend call is past get_model() with the cached model although the
\* directory now holds a newer matrix and a newer mapping than the cached
C5_Witness ==
    /\ loads = 1
    /\ th[MainThread].pc = "body"
    /\ LastGen(embFiles) > Val(managers[1].model_path)
    /\ LastGen(mapFiles) > Val(managers[1].map_gen)

\* C6: a manager that holds both a matrix and a mapping holds those of one
\* generation.
C6_SameGeneration ==
    \A i \in 1..Len(managers) :
        (HasMatrix(i) /\ HasMapping(i)) =>
            Val(managers[i].model_path) = Val(managers[i].map_gen)

\* C7: a load_model() call that finds no matrix file or no mapping file ends
\* with the configuration error (FileNotFoundError, line 39) at its caller,
\* and the manager caches nothing.
C7_MissingKindIsConfigError ==
    [][\A t \in Threads :
        (/\ th[t].pc = "lm_glob_map"
         /\ th[t].stage = 1
         /\ th'[t].pc # "lm_glob_map"
         /\ (th[t].emb_sel = NoneV \/ mapFiles = << >>))
        => LET i == th[t].self
           IN  /\ th'[t].out = RaisedExc("FileNotFoundError")
               /\ managers'[i].game_embeddings = NoneV
               /\ managers'[i].map_gen = NoneV]_vars

\* C8: a cached model has as many matrix rows as mapping entries.
C8_RowCountEqualsMappingSize ==
    \A i \in 1..Len(managers) :
        (HasMatrix(i) /\ HasMapping(i)) =>
            Len(Val(managers[i].game_embeddings))
                = Cardinality(DOMAIN managers[i].reverse_game_mapping)

\* C9: in a cached model the two mappings are mutual inverses.
C9_MappingsAreInverse ==
    \A i \in 1..Len(managers) :
        HasMapping(i) =>
            LET fwd == managers[i].game_mapping
                rev == managers[i].reverse_game_mapping
            IN  /\ \A k \in DOMAIN rev : rev[k] \in DOMAIN fwd /\ fwd[rev[k]] = k
                /\ \A g \in DOMAIN fwd : fwd[g] \in DOMAIN rev /\ rev[fwd[g]] = g

\* C10: when load_model() has raised to its caller the manager is still
\* uninitialized, and a load_model() that returns gives a complete model.
C10_FailedLoadLeavesNothing ==
    \A t \in Threads :
        (th[t].pc = "done" /\ th[t].op = "load") =>
            LET i == Val(cls_instance)
            IN  /\ th[t].out.kind = "raised" => ~HasMatrix(i)
                /\ th[t].out.kind = "returned" => (HasMatrix(i) /\ HasMapping(i))

\* ------------------------------------------------- claims on the ranking
\* The model the manager of ModelManager._instance has cached, and the store
\* as a request sees it now
Cached == managers[Val(cls_instance)]
CachedEmb == Val(Cached.game_embeddings)
StoreNow == Store(games, pax, TRUE)
Value(t) == th[t].out.value
Recommend(req, db) ==
    get_recommendations(CachedEmb, Cached.game_mapping, Cached.reverse_game_mapping,
                        req, db)

\* the ids of a request that the cached mapping knows
KnownIds(req) ==
    (Range(req.liked) \cup Range(req.disliked)) \cap DOMAIN Cached.game_mapping

\* C11: a recommend call whose lists are both empty, or name no id of the
\* mapping, returns the empty list and makes no query to the catalog store,
\* whatever the limit and the loaded model.
C11_NoKnownIdIsEmptyAndUnqueried ==
    \A t \in Threads :
        (Finished(t) /\ KnownIds(RequestOf(t)) = {}) =>
            /\ Value(t) = << >>
            /\ th[t].out.queries = 0
            /\ th[t].out.kind = "returned"

\* a call with only an unknown id, against a catalog that holds every item
C11_Witness ==
    /\ Finished(MainThread)
    /\ RequestOf(MainThread).liked = <<999>>
    /\ RequestOf(MainThread).disliked = << >>
    /\ RequestOf(MainThread).limit = MaxLimit
    /\ Len(games) = 4
    /\ Value(MainThread) = << >>
    /\ th[MainThread].out.queries = 0

\* ids with those of U taken out
RECURSIVE Without(_, _)
Without(ids, U) ==
    IF ids = << >> THEN << >>
    ELSE (IF Head(ids) \in U THEN << >> ELSE <<Head(ids)>>) \o Without(Tail(ids), U)

UnknownIds(req) ==
    (Range(req.liked) \cup Range(req.disliked)) \ DOMAIN Cached.game_mapping

\* C12: a call whose lists carry ids the mapping does not know returns, and
\* returns the very list (ids, scores, order) that the same call without
\* those ids returns.
C12_UnknownIdsChangeNothing ==
    \A t \in Threads :
        Finished(t) =>
            LET r == RequestOf(t)
                U == UnknownIds(r)
                stripped == [r EXCEPT !.liked = Without(r.liked, U),
                                      !.disliked = Without(r.disliked, U)]
            IN  /\ th[t].out.kind = "returned"
                /\ Value(t) = Recommend(stripped, StoreNow)

\* a known and an unknown id liked together, and something recommended
C12_Witness ==
    /\ Finished(MainThread)
    /\ RequestOf(MainThread).liked = <<102, 999>>
    /\ RequestOf(MainThread).disliked = <<999>>
    /\ Value(MainThread) # << >>

\* C13: every item a recommend call returns carries a score above 0.
C13_ScoresArePositive ==
    \A t \in Threads :
        Finished(t) => \A i \in 1..Len(Value(t)) : Value(t)[i][2] > 0

\* limit 2, two candidates in the catalog, one of them (103) with score 0:
\* one item comes back
C13_Witness ==
    /\ Finished(MainThread)
    /\ CachedEmb = EmbA
    /\ Cached.reverse_game_mapping = ReverseMappingOf(MapA)
    /\ Len(games) = 4
    /\ RequestOf(MainThread) = Request(<<101>>, << >>, 2, 1, FALSE)
    /\ Len(Value(MainThread)) = 1
    /\ Value(MainThread)[1][1] = 102

\* C14: the returned list is in non-increasing order of score.
C14_NonIncreasingScores ==
    \A t \in Threads :
        Finished(t) =>
            \A i, j \in 1..Len(Value(t)) : i < j => Value(t)[i][2] >= Value(t)[j][2]

\* two items of different score returned, from a store whose row order is
\* not the rank order
C14_Witness ==
    /\ Finished(MainThread)
    /\ Len(Value(MainThread)) = 2
    /\ Value(MainThread)[1][2] > Value(MainThread)[2][2]
    /\ games[1] = Value(MainThread)[2][1]

\* C15: items of equal score come back in ascending order of ItemId.
C15_TiesByAscendingItemId ==
    \A t \in Threads :
        Finished(t) =>
            \A i, j \in 1..Len(Value(t)) :
                (i < j /\ Value(t)[i][2] = Value(t)[j][2]) => Value(t)[i][1] < Value(t)[j][1]

\* the orders in which a store can return the rows it holds
RowOrders(rows) ==
    {[i \in 1..Len(rows) |-> rows[f[i]]] : f \in Permutations(1..Len(rows))}

\* C16: what a call returns (ids, scores and order, ties included) is fixed
\* by its arguments, the cached model and the catalog's content: a store that
\* returns the same rows in any other order gives the same list.
C16_SameListForEveryRowOrder ==
    \A t \in Threads :
        Finished(t) =>
            LET ranked == Rank(CachedEmb, Cached.game_mapping,
                               Cached.reverse_game_mapping, RequestOf(t))
            IN  \A rows \in RowOrders(games) :
                    Value(t) = Caught(IF ranked.ended THEN ranked.out
                                      ELSE Hydrate(ranked.scored, RequestOf(t),
                                                   Store(rows, pax, TRUE)))

\* two items of equal score returned, the store listing them the other way
C16_Witness ==
    /\ Finished(MainThread)
    /\ Len(Value(MainThread)) = 2
    /\ Value(MainThread)[1][2] = Value(MainThread)[2][2]
    /\ \E i, j \in 1..Len(games) :
          i < j /\ games[i] = Value(MainThread)[2][1] /\ games[j] = Value(MainThread)[1][1]

\* C17: a call returns at most `limit` items (none for limit = 0).
C17_AtMostLimitItems ==
    \A t \in Threads :
        Finished(t) => Len(Value(t)) <= RequestOf(t).limit

IdsOf(v) == [i \in 1..Len(v) |-> v[i][1]]

\* every two items of `sub`, taken in its order, stand in that order in `full`
InOrderOf(sub, full) ==
    \A i, j \in 1..Len(sub) :
        i < j => \E a, b \in 1..Len(full) : a < b /\ full[a] = sub[i] /\ full[b] = sub[j]

\* What lines 87-128 hand on for the request of thread t: the ranking
\* (recommended_games_with_scores) before any restriction or hydration
Ranked(t) ==
    Rank(CachedEmb, Cached.game_mapping, Cached.reverse_game_mapping, RequestOf(t))

\* C18: with pax_only every returned id is one of the registry's ids, and the
\* returned items stand in the order the unrestricted ranking has them in.
C18_RestrictionKeepsRegistryIdsInRankOrder ==
    \A t \in Threads :
        (Finished(t) /\ RequestOf(t).pax_only) =>
            /\ ReturnedIds(t) \subseteq pax
            /\ ReturnedIds(t) \subseteq Range(IdsOf(Ranked(t).scored))
            /\ InOrderOf(IdsOf(Value(t)), IdsOf(Ranked(t).scored))

\* the best item of the unrestricted ranking is not in the registry and two
\* lower ones come back
C18_Witness ==
    /\ Finished(MainThread)
    /\ RequestOf(MainThread).pax_only
    /\ Len(Value(MainThread)) = 2
    /\ Len(Ranked(MainThread).scored) = 3
    /\ Ranked(MainThread).scored[1][1] \notin pax

\* C19: candidates without a board_games row are left out and cause no
\* error; every returned id is one of the store's rows, and the returned
\* items stand in the order the ranking has them in.
C19_MissingRecordsAreDropped ==
    \A t \in Threads :
        Finished(t) =>
            /\ th[t].out.kind = "returned"
            /\ th[t].out.caught => Ranked(t).ended
            /\ ReturnedIds(t) \subseteq Range(games)
            /\ ReturnedIds(t) \subseteq Range(IdsOf(Ranked(t).scored))
            /\ InOrderOf(IdsOf(Value(t)), IdsOf(Ranked(t).scored))

\* the second of three ranked candidates has no row: the first and the third
\* come back
C19_Witness ==
    /\ Finished(MainThread)
    /\ ~th[MainThread].out.caught
    /\ ~RequestOf(MainThread).pax_only
    /\ LET scored == Ranked(MainThread).scored
       IN  /\ Len(scored) = 3
           /\ scored[2][1] \notin Range(games)
           /\ IdsOf(Value(MainThread)) = <<scored[1][1], scored[3][1]>>

\* C20: a call that names an id of the mapping makes exactly one round-trip
\* to the catalog store, with or without the registry restriction.
C20_OneStoreRoundTrip ==
    \A t \in Threads :
        (Finished(t) /\ KnownIds(RequestOf(t)) # {} /\ ~th[t].out.caught) =>
            th[t].out.queries = 1

\* C21: a recommend call leaves every entity it got from the store as it
\* was: it writes no attribute onto any of them.
C21_EntitiesNotMutated ==
    \A t \in Threads :
        Finished(t) => DOMAIN th[t].out.written = {}

\* C22: with the model loaded, a recommend call that runs while calls of
\* other threads run returns the list it returns when it runs alone, and no
\* step of any call changes the shared model.
C22_ConcurrentCallsDoNotInterfere ==
    /\ \A t \in Threads :
          Finished(t) => Value(t) = Recommend(RequestOf(t), StoreNow)
    /\ managers = <<LoadedManager(Latest(embFiles).content, Latest(mapFiles).content)>>

\* a call finished while the other thread held the ranking of another
\* request, and both have results
C22_Witness ==
    /\ Finished("t1") /\ Finished("t2")
    /\ th["t1"].out.overlapped
    /\ RequestOf("t1") # RequestOf("t2")
    /\ Value("t1") # << >> /\ Value("t2") # << >>
    /\ Value("t1") # Value("t2")

\* The index lists of a request under the cached mapping
LikedRows(req) == ToIndices(Cached.game_mapping, req.liked)
DislikedRows(req) == ToIndices(Cached.game_mapping, req.disliked)

\* pos_vec = anti_weight * neg_vec for a request that names a known id and
\* only rows the matrix has: both sides times len(liked) * len(disliked)
Degenerate(req) ==
    LET l == LikedRows(req)
        d == DislikedRows(req)
    IN  /\ l \o d # << >>
        /\ RowsExist(CachedEmb, l \o d)
        /\ VScale(IF d = << >> THEN 1 ELSE Len(d), SumRows(CachedEmb, l))
             = VScale(req.anti_weight * (IF l = << >> THEN 1 ELSE Len(l)),
                      SumRows(CachedEmb, d))

\* C23: a request whose pos_vec - anti_weight * neg_vec is the zero vector
\* gets the empty list, and no exception occurs inside the call.
C23_ZeroQueryGivesEmptyList ==
    \A t \in Threads :
        (Finished(t) /\ Degenerate(RequestOf(t))) =>
            /\ Value(t) = << >>
            /\ ~th[t].out.caught
            /\ th[t].out.kind = "returned"

\* liked = disliked = [101] with anti_weight 1 on the four-row model
C23_Witness ==
    /\ Finished(MainThread)
    /\ CachedEmb = EmbT
    /\ Cached.reverse_game_mapping = ReverseMappingOf(MapQ)
    /\ Len(games) = 4
    /\ RequestOf(MainThread) = Request(<<101>>, <<101>>, MaxLimit, 1, FALSE)
    /\ Degenerate(RequestOf(MainThread))
    /\ Value(MainThread) = << >>

\* The cached model is one C8 and C9 allow: as many rows as mapping
\* entries, the two mappings inverse to each other
WellFormed ==
    /\ Len(CachedEmb) = Cardinality(DOMAIN Cached.reverse_game_mapping)
    /\ \A k \in DOMAIN Cached.reverse_game_mapping :
          /\ Cached.reverse_game_mapping[k] \in DOMAIN Cached.game_mapping
          /\ Cached.game_mapping[Cached.reverse_game_mapping[k]] = k
    /\ \A g \in DOMAIN Cached.game_mapping :
          /\ Cached.game_mapping[g] \in DOMAIN Cached.reverse_game_mapping
          /\ Cached.reverse_game_mapping[Cached.game_mapping[g]] = g

\* A request liked = [A] with A known, nothing disliked, no restriction,
\* against a catalog that has a row for every item of the model
PlainSingle(req) ==
    /\ Len(req.liked) = 1
    /\ req.liked[1] \in DOMAIN Cached.game_mapping
    /\ req.disliked = << >>
    /\ ~req.pax_only
    /\ Range(Cached.reverse_game_mapping) \subseteq Range(games)

\* similarity of item g to item A (both times RowNorm squared)
Similarity(g, A) ==
    Dot(CachedEmb[Cached.game_mapping[g] + 1], CachedEmb[Cached.game_mapping[A] + 1])

\* The reference answer for liked = [A]: v lists distinct items other than A
\* of positive similarity, each with its similarity, in non-increasing
\* order, no item left out being more similar than a listed one, and as
\* many as limit allows.
IsReferenceRanking(v, A, limit) ==
    LET positive == {g \in DOMAIN Cached.game_mapping \ {A} : Similarity(g, A) > 0}
        count == IF Cardinality(positive) < limit THEN Cardinality(positive) ELSE limit
    IN  /\ Len(v) = count
        /\ \A i \in 1..Len(v) : v[i][1] \in positive /\ v[i][2] = Similarity(v[i][1], A)
        /\ \A i, j \in 1..Len(v) : i < j => (v[i][1] # v[j][1] /\ v[i][2] >= v[j][2])
        /\ \A g \in positive \ Range(IdsOf(v)) :
              \A i \in 1..Len(v) : Similarity(g, A) <= v[i][2]

\* C24: on a well-formed model, a call with liked = [A], nothing disliked and
\* no restriction, against a complete catalog, returns the reference ranking
\* for A cut to the first `limit` items.
C24_ReferenceRanking ==
    \A t \in Threads :
        (Finished(t) /\ WellFormed /\ PlainSingle(RequestOf(t))) =>
            IsReferenceRanking(Value(t), RequestOf(t).liked[1], RequestOf(t).limit)

\* C25: every score of the scoring step (lines 109-113, before the input
\* rows are overwritten) lies in [-1, 1]: the square of the model score is
\* at most RowNorm squared times the squared norm normalize divided by.
C25_ScoresWithinUnitInterval ==
    \A t \in Threads :
        (Finished(t) /\ RowsExist(CachedEmb, LikedRows(RequestOf(t)) \o DislikedRows(RequestOf(t)))) =>
            LET l == LikedRows(RequestOf(t))
                d == DislikedRows(RequestOf(t))
                unit == Normalize(QueryVec(CachedEmb, l, d, RequestOf(t).anti_weight),
                                  QueryScale(l, d))
            IN  \A i \in 1..Len(CachedEmb) :
                    Dot(CachedEmb[i], unit.vec) * Dot(CachedEmb[i], unit.vec)
                        <= RowNorm * RowNorm * unit.norm2

\* a liked and a disliked item that point apart: the difference of their
\* rows is longer than a unit vector
C25_Witness ==
    /\ Finished(MainThread)
    /\ CachedEmb = EmbB
    /\ Cached.reverse_game_mapping = ReverseMappingOf(MapB)
    /\ RequestOf(MainThread) = Request(<<101>>, <<102>>, MaxLimit, 1, FALSE)
    /\ LET q == QueryVec(CachedEmb, <<0>>, <<1>>, 1)
       IN  Dot(q, q) > RowNorm * RowNorm


\* C26: a get_games call with players = N and no recommendations filter
\* returns only games whose player range contains N
\* (min_players <= N <= max_players), for every N.
C26_OnlyGamesInPlayerRange ==
    (reply.op = "get_games" /\ reply.args.players # NoneV
                            /\ reply.args.recommendations = NoneV) =>
        \A i \in 1..Len(reply.value.games) :
            InPlayerRange(reply.value.games[i], Val(reply.args.players))


\* The scores of lines 112-117 in the call thread t finished: by row index,
\* the rows of the request's known ids at the sentinel.
ScoresIn(t) ==
    LET req == RequestOf(t)
        liked_indices == ToIndices(Cached.game_mapping, req.liked)
        disliked_indices == ToIndices(Cached.game_mapping, req.disliked)
        query == QueryVec(CachedEmb, liked_indices, disliked_indices, req.anti_weight)
        unit == Normalize(query, QueryScale(liked_indices, disliked_indices))
    IN  ScoresOf(CachedEmb, unit.vec, Range(liked_indices \o disliked_indices))

\* The rows fewer than n rows score higher than: the n highest-scoring rows
\* (whichever way rows of equal score are counted).
HighestScoring(scores, n) ==
    {r \in DOMAIN scores : Cardinality({q \in DOMAIN scores : scores[q] > scores[r]}) < n}

\* The items of the rows `rows` that pass the score threshold, the registry
\* restriction and the catalog look-up of the call of thread t.
EligibleIn(t, rows, scores) ==
    {Cached.reverse_game_mapping[r] :
        r \in {q \in rows \cap DOMAIN Cached.reverse_game_mapping : scores[q] > 0}}
    \cap Range(games)
    \cap (IF RequestOf(t).pax_only THEN pax ELSE ItemIds)

\* C27: only the 2 x limit highest-scoring rows are considered: every
\* returned item is the item of one of them, and when fewer than limit of
\* their items pass the restriction and the catalog look-up the call
\* returns fewer than limit items, whatever is eligible further down.
C27_OnlyTheOversampledWindow ==
    \A t \in Threads :
        (Finished(t) /\ Value(t) # << >>) =>
            LET window == HighestScoring(ScoresIn(t), 2 * RequestOf(t).limit)
            IN  /\ \A i \in 1..Len(Value(t)) :
                       \E r \in window \cap DOMAIN Cached.reverse_game_mapping :
                           Cached.reverse_game_mapping[r] = Value(t)[i][1]
                /\ (Cardinality(EligibleIn(t, window, ScoresIn(t))) < RequestOf(t).limit
                        => Len(Value(t)) < RequestOf(t).limit)


\* The requests that list one id of req.liked, or one of req.disliked, once
\* more than req does.
Repeats(req) ==
    {[req EXCEPT !.liked = Append(req.liked, req.liked[i])] : i \in 1..Len(req.liked)}
    \cup {[req EXCEPT !.disliked = Append(req.disliked, req.disliked[i])] :
              i \in 1..Len(req.disliked)}

\* The squared length of the query vector the scores of `req` are to be
\* divided by (line 109).
Norm2In(req) ==
    LET liked_indices == ToIndices(Cached.game_mapping, req.liked)
        disliked_indices == ToIndices(Cached.game_mapping, req.disliked)
    IN  Normalize(QueryVec(CachedEmb, liked_indices, disliked_indices, req.anti_weight),
                  QueryScale(liked_indices, disliked_indices)).norm2

\* C28: liked and disliked ids count as sets: a request that repeats an id
\* of its liked list, or of its disliked list, gets the same ids with the
\* same scores in the same order as the request that lists it once.
C28_RepeatedIdsChangeNothing ==
    \A t \in Threads :
        Finished(t) =>
            \A again \in Repeats(RequestOf(t)) :
                LET once == Value(t)
                    twice == Recommend(again, StoreNow)
                IN  /\ IdsOf(twice) = IdsOf(once)
                    /\ \A i \in 1..Len(once) :
                           once[i][2] * once[i][2] * Norm2In(again)
                               = twice[i][2] * twice[i][2] * Norm2In(RequestOf(t))


\* C29: every call of the offline recommend_similar_games returns at most
\* n_recommendations pairs, so none for n_recommendations = 0, and returns
\* the empty list when none of the liked ids is known.
C29_OfflineAtMostNPairs ==
    reply.op = "recommend_similar_games" =>
        /\ reply.value.kind = "returned"
        /\ Len(reply.value.pairs) <= reply.args.n_recommendations
        /\ (Range(reply.args.game_ids) \cap DOMAIN Val(recommender).game_mapping = {}
               => reply.value.pairs = << >>)


\* C30: _cache and _cache_ttl hold the same keys in every state, and a
\* get_cached_data(key) call returns the data of the last set_cached_data
\* for the key when the time of the call is before that call's expiry time,
\* and otherwise returns None and leaves no entry for the key: data whose
\* expiry time has passed is never returned.
C30_CacheKeysAgreeAndNothingExpiredIsReturned ==
    /\ DOMAIN cache = DOMAIN cache_ttl
    /\ reply.op = "get_cached_data" =>
           LET key == reply.args.key
               fresh == key \in DOMAIN last_set /\ reply.at < last_set[key].expiry
           IN  /\ reply.value = (IF fresh THEN Some(last_set[key].data) ELSE NoneV)
               /\ (~fresh => key \notin DOMAIN cache \cup DOMAIN cache_ttl)

\* a key set earlier is asked for after its expiry time: None comes back and
\* the entry is gone, while the other key stays cached
C30_Witness ==
    /\ reply.op = "get_cached_data"
    /\ reply.value = NoneV
    /\ reply.args.key \in DOMAIN last_set
    /\ reply.at >= last_set[reply.args.key].expiry
    /\ DOMAIN cache = CacheKeys \ {reply.args.key}

=============================================================================
